---- MODULE Spec2Model ----
(***************************************************************************)
(* Model of scripts/record-audio.py: one recording session of              *)
(* record_audio_with_silence_detection followed by the exit of __main__.   *)
(*                                                                         *)
(* Durations are held in milliseconds (the code holds seconds), so that    *)
(* the products with RATE stay integers; a chunk is identified by the      *)
(* ordinal of the read that returned it, and its 1024 samples all carry    *)
(* the same signed level.  The threshold is the exact rational num/den.    *)
(***************************************************************************)
EXTENDS Integers, Sequences, FiniteSets, TLC

\* ------------------------------------------------------------------------
\* Program constants
\* ------------------------------------------------------------------------
RATE == 16000

CHUNK == 1024

calibration_chunks == 8

SkipChunks == 3

UpperClamp == 1200

WaitMs == 5000

\* ------------------------------------------------------------------------
\* Inputs explored
\* ------------------------------------------------------------------------
\* the scenarios explored: max_duration_seconds, silence_threshold and
\* max_silence_seconds (durations in ms), and the signed sample levels the
\* chunks of the input stream can carry
Configs ==
  { [dur |-> 30000, thr |-> 800,  sil |-> 3000,  lv |-> {-2000}],
    [dur |-> 5550,  thr |-> 800,  sil |-> 3000,  lv |-> {10, -2000}],
    [dur |-> 2000,  thr |-> 2000, sil |-> 1000,  lv |-> {10, 1000, -2000}],
    [dur |-> 6000,  thr |-> 0,    sil |-> 500,   lv |-> {10, 50}],
    [dur |-> 2000,  thr |-> 50,   sil |-> 500,   lv |-> {10, -50, 60}],
    [dur |-> 3000,  thr |-> 800,  sil |-> 0,     lv |-> {10, -2000}],
    [dur |-> 2000,  thr |-> 800,  sil |-> -1000, lv |-> {10, -2000}],
    [dur |-> 400,   thr |-> 800,  sil |-> 3000,  lv |-> {10, -2000}],
    [dur |-> 0,     thr |-> 800,  sil |-> 3000,  lv |-> {10, -2000}],
    [dur |-> -1000, thr |-> 800,  sil |-> 3000,  lv |-> {10, -2000}] }

\* ------------------------------------------------------------------------
\* Pure helpers
\* ------------------------------------------------------------------------
Abs(x) == IF x < 0 THEN -x ELSE x

Max(a, b) == IF a >= b THEN a ELSE b

Min(a, b) == IF a <= b THEN a ELSE b

\* Python int() of the rational num/den (den > 0): truncation toward zero
int(num, den) == IF num >= 0 THEN num \div den ELSE -((-num) \div den)

\* the rounding-up counterpart of int
Ceil(num, den) == -((-num) \div den)

RECURSIVE SumSeq(_)
SumSeq(s) == IF s = <<>> THEN 0 ELSE Head(s) + SumSeq(Tail(s))

\* sum(abs(x) for x in audio_data) / len(audio_data), all samples equal
Amplitude(data) == (CHUNK * Abs(data)) \div CHUNK

VARIABLES pc, levels, max_duration_seconds, max_silence_seconds, configured_threshold,
          silence_threshold, stream_open, stream_opened, pa_alive,
          frames, silence_chunks, total_chunks, has_spoken,
          waiting_for_speech_chunks, calibration_samples, is_calibrating,
          calibration_reads, stop_reason, wav_written, success, exit_code,
          data, error,
          status, animation_timer, current_frame, timers, idle_queue,
          last_relevant, last_event, garbled,
          whisper_model, wpc, model, attempts, result, calls,
          running, ws, tpc, qpc, open_sockets, connections

vars == <<pc, levels, max_duration_seconds, max_silence_seconds, configured_threshold,
          silence_threshold, stream_open, stream_opened, pa_alive,
          frames, silence_chunks, total_chunks, has_spoken,
          waiting_for_speech_chunks, calibration_samples, is_calibrating,
          calibration_reads, stop_reason, wav_written, success, exit_code,
          data, error,
          status, animation_timer, current_frame, timers, idle_queue,
          last_relevant, last_event, garbled,
          whisper_model, wpc, model, attempts, result, calls,
          running, ws, tpc, qpc, open_sockets, connections>>

\* the variables of the indicator's connection thread and of quit
conVars == <<running, ws, tpc, qpc, open_sockets, connections>>

\* the variables of the transcriber (scripts/transcribe-audio.py)
whVars == <<whisper_model, wpc, model, attempts, result, calls>>

\* the variables of the recording session (scripts/record-audio.py)
recVars == <<pc, levels, max_duration_seconds, max_silence_seconds,
             configured_threshold, silence_threshold, stream_open,
             stream_opened, pa_alive, frames, silence_chunks, total_chunks,
             has_spoken, waiting_for_speech_chunks, calibration_samples,
             is_calibrating, calibration_reads, stop_reason, wav_written,
             success, exit_code, data, error>>

\* the variables of the tray indicator (transcription-indicator.py)
indVars == <<status, animation_timer, current_frame, timers, idle_queue,
             last_relevant, last_event, garbled>>

cfgVars == <<levels, max_duration_seconds, max_silence_seconds, configured_threshold>>

loopVars == <<frames, silence_chunks, total_chunks, has_spoken,
              waiting_for_speech_chunks, calibration_samples, is_calibrating,
              calibration_reads, silence_threshold>>

\* ------------------------------------------------------------------------
\* Derived chunk limits (lines 50, 51, 55)
\* ------------------------------------------------------------------------
max_silence_chunks_ceil == Ceil(max_silence_seconds * RATE, 1000 * CHUNK)
max_silence_chunks == int(max_silence_seconds * RATE, 1000 * CHUNK)

max_total_chunks_ceil == Ceil(max_duration_seconds * RATE, 1000 * CHUNK)
max_total_chunks == int(max_duration_seconds * RATE, 1000 * CHUNK)

max_waiting_chunks_ceil == Ceil(WaitMs * RATE, 1000 * CHUNK)
max_waiting_chunks == int(WaitMs * RATE, 1000 * CHUNK)

\* ------------------------------------------------------------------------
\* Calibration (lines 66-87)
\* ------------------------------------------------------------------------
IsSkipped_two(total) == total <= 2
IsSkipped(total) == total <= SkipChunks

CalibrationFull(samples) == Len(samples) >= calibration_chunks - 3

\* min(max(avg_noise * 2.0, silence_threshold), 1200) as num/den
CalibratedThreshold_noclamp(samples, base) ==
  [num |-> Max(2 * SumSeq(samples), base * Len(samples)), den |-> Len(samples)]
CalibratedThreshold(samples, base) ==
  LET n == Len(samples)
      adjusted == Max(2 * SumSeq(samples), base * n)
  IN [num |-> Min(adjusted, UpperClamp * n), den |-> n]

\* current_amplitude > silence_threshold
IsVoiced_ge(amplitude, threshold) == amplitude * threshold.den >= threshold.num
IsVoiced(amplitude, threshold) == amplitude * threshold.den > threshold.num

\* frames left by a calibration iteration (both `continue` branches)
CalibrationFrames_append(fr, id) == Append(fr, id)
CalibrationFrames(fr, id) == fr

CalibrateChunk(d) ==
  /\ calibration_reads' = calibration_reads \cup {total_chunks'}
  /\ frames' = CalibrationFrames(frames, total_chunks')
  /\ UNCHANGED <<silence_chunks, has_spoken, waiting_for_speech_chunks,
                 stop_reason, pc>>
  /\ IF IsSkipped(total_chunks')
       THEN UNCHANGED <<calibration_samples, silence_threshold, is_calibrating>>
       ELSE /\ calibration_samples' = Append(calibration_samples, Amplitude(d))
            /\ IF CalibrationFull(calibration_samples')
                 THEN /\ silence_threshold' =
                           CalibratedThreshold(calibration_samples',
                                               silence_threshold.num)
                      /\ is_calibrating' = FALSE
                 ELSE UNCHANGED <<silence_threshold, is_calibrating>>

\* ------------------------------------------------------------------------
\* Listening (lines 89-122)
\* ------------------------------------------------------------------------
NoSpeechTimeout_strict(spoken, waiting) == ~spoken /\ waiting > max_waiting_chunks
NoSpeechTimeout(spoken, waiting) == ~spoken /\ waiting >= max_waiting_chunks

SilenceReached_any(spoken, silent) == silent >= max_silence_chunks
SilenceReached(spoken, silent) == spoken /\ silent >= max_silence_chunks

\* silence_chunks after the chunk (lines 96, 99)
NextSilence(voiced, silent) == IF voiced THEN 0 ELSE silent + 1

\* waiting_for_speech_chunks after the chunk (lines 97, 100-101)
NextWaiting_always(voiced, spoken, waiting) == IF voiced THEN 0 ELSE waiting + 1
NextWaiting(voiced, spoken, waiting) ==
  IF voiced THEN 0
  ELSE IF ~spoken THEN waiting + 1
  ELSE waiting

\* frames.append(data)
AcceptChunk_front(fr, id) == <<id>> \o fr
AcceptChunk(fr, id) == Append(fr, id)

ListenChunk(d) ==
  LET voiced == IsVoiced(Amplitude(d), silence_threshold) IN
  /\ has_spoken' = (has_spoken \/ voiced)
  /\ silence_chunks' = NextSilence(voiced, silence_chunks)
  /\ waiting_for_speech_chunks' =
       NextWaiting(voiced, has_spoken, waiting_for_speech_chunks)
  /\ frames' = AcceptChunk(frames, total_chunks')
  /\ IF NoSpeechTimeout(has_spoken', waiting_for_speech_chunks')
       THEN stop_reason' = "no_speech" /\ pc' = "close"
       ELSE IF SilenceReached(has_spoken', silence_chunks')
       THEN stop_reason' = "silence" /\ pc' = "close"
       ELSE UNCHANGED <<stop_reason, pc>>
  /\ UNCHANGED <<calibration_samples, silence_threshold, is_calibrating,
                 calibration_reads>>

\* ------------------------------------------------------------------------
\* Actions
\* ------------------------------------------------------------------------
RecInit(c) ==
  /\ levels = c.lv
  /\ max_duration_seconds = c.dur
  /\ max_silence_seconds = c.sil
  /\ configured_threshold = c.thr
  /\ silence_threshold = [num |-> c.thr, den |-> 1]
  /\ pc = "open"
  /\ pa_alive = TRUE
  /\ stream_open = FALSE
  /\ stream_opened = FALSE
  /\ frames = <<>>
  /\ silence_chunks = 0
  /\ total_chunks = 0
  /\ has_spoken = FALSE
  /\ waiting_for_speech_chunks = 0
  /\ calibration_samples = <<>>
  /\ is_calibrating = TRUE
  /\ calibration_reads = {}
  /\ stop_reason = "none"
  /\ wav_written = FALSE
  /\ success = "none"
  /\ exit_code = -1
  /\ data = 0
  /\ error = "none"

\* TranscriptionIndicator.__init__
IndInit ==
  /\ status = "PASSIVE"
  /\ animation_timer = 0
  /\ current_frame = 0
  /\ timers = {}
  /\ idle_queue = <<>>
  /\ last_relevant = FALSE
  /\ last_event = -1
  /\ garbled = FALSE

\* transcribe-audio.py once imported: nothing loaded, nothing called
WhInit ==
  /\ whisper_model = 0
  /\ wpc = "idle"
  /\ model = 0
  /\ attempts = <<>>
  /\ result = "none"
  /\ calls = 0

\* TranscriptionIndicator.__init__ up to thread.start()
ConInit ==
  /\ running = TRUE
  /\ ws = 0
  /\ tpc = "loop"
  /\ qpc = "idle"
  /\ open_sockets = {}
  /\ connections = 0

Init ==
  /\ \E c \in Configs : RecInit(c)
  /\ IndInit
  /\ WhInit
  /\ ConInit

\* while total_chunks < max_total_chunks
LoopCondition_le == total_chunks <= max_total_chunks
LoopCondition == total_chunks < max_total_chunks

\* pa.open(...) returns a stream
OpenStream ==
  /\ pc = "open"
  /\ stream_open' = TRUE
  /\ stream_opened' = TRUE
  /\ pc' = "loop"
  /\ UNCHANGED <<cfgVars, indVars, whVars, conVars, loopVars, pa_alive, stop_reason, wav_written,
                 success, exit_code, data, error>>

\* pa.open(...) raises
OpenFails ==
  /\ pc = "open"
  /\ pc' = "except"
  /\ error' = "open"
  /\ UNCHANGED <<cfgVars, indVars, whVars, conVars, loopVars, pa_alive, stream_open, stream_opened,
                 stop_reason, wav_written, success, exit_code, data>>

\* one iteration of the while loop whose read returns
ReadChunk ==
  /\ pc = "loop"
  /\ LoopCondition
  /\ total_chunks' = total_chunks + 1
  /\ \E d \in levels :
       /\ data' = d
       /\ IF is_calibrating THEN CalibrateChunk(d) ELSE ListenChunk(d)
  /\ UNCHANGED <<cfgVars, indVars, whVars, conVars, pa_alive, stream_open, stream_opened, wav_written,
                 success, exit_code, error>>

\* stream.read raises
ReadFails ==
  /\ pc = "loop"
  /\ LoopCondition
  /\ pc' = "except"
  /\ error' = "read"
  /\ UNCHANGED <<cfgVars, indVars, whVars, conVars, loopVars, pa_alive, stream_open, stream_opened,
                 stop_reason, wav_written, success, exit_code, data>>

\* the while condition is false
LoopExit ==
  /\ pc = "loop"
  /\ ~LoopCondition
  /\ stop_reason' = "max_duration"
  /\ pc' = "close"
  /\ UNCHANGED <<cfgVars, indVars, whVars, conVars, loopVars, pa_alive, stream_open, stream_opened,
                 wav_written, success, exit_code, data, error>>

\* stream.stop_stream(); stream.close()
CloseStream ==
  /\ pc = "close"
  /\ stream_open' = FALSE
  /\ pc' = "save"
  /\ UNCHANGED <<cfgVars, indVars, whVars, conVars, loopVars, pa_alive, stream_opened, stop_reason,
                 wav_written, success, exit_code, data, error>>

\* the WAV file is written; return True
SaveWav ==
  /\ pc = "save"
  /\ wav_written' = TRUE
  /\ success' = "True"
  /\ pc' = "finally"
  /\ UNCHANGED <<cfgVars, indVars, whVars, conVars, loopVars, pa_alive, stream_open, stream_opened,
                 stop_reason, exit_code, data, error>>

\* wave.open / writeframes raises
SaveFails ==
  /\ pc = "save"
  /\ pc' = "except"
  /\ error' = "write"
  /\ UNCHANGED <<cfgVars, indVars, whVars, conVars, loopVars, pa_alive, stream_open, stream_opened,
                 stop_reason, wav_written, success, exit_code, data>>

\* the value the except clause returns after `err` was raised
ExceptReturn_partial(err, fr) ==
  IF err = "read" /\ fr # <<>> THEN "True" ELSE "False"
ExceptReturn(err, fr) == "False"

\* except Exception: return False
Except ==
  /\ pc = "except"
  /\ success' = ExceptReturn(error, frames)
  /\ pc' = "finally"
  /\ UNCHANGED <<cfgVars, indVars, whVars, conVars, loopVars, pa_alive, stream_open, stream_opened,
                 stop_reason, wav_written, exit_code, data, error>>

\* streams still open after pa.terminate(), which closes its open streams
Terminate_leak(open) == open
Terminate(open) == FALSE

\* finally: pa.terminate()
Finally ==
  /\ pc = "finally"
  /\ pa_alive' = FALSE
  /\ stream_open' = Terminate(stream_open)
  /\ pc' = "exit"
  /\ UNCHANGED <<cfgVars, indVars, whVars, conVars, loopVars, stream_opened, stop_reason, wav_written,
                 success, exit_code, data, error>>

\* sys.exit(0 if success else 1)
Exit ==
  /\ pc = "exit"
  /\ exit_code' = IF success = "True" THEN 0 ELSE 1
  /\ pc' = "done"
  /\ UNCHANGED <<cfgVars, indVars, whVars, conVars, loopVars, pa_alive, stream_open, stream_opened,
                 stop_reason, wav_written, success, data, error>>

Next ==
  \/ OpenStream
  \/ OpenFails
  \/ ReadChunk
  \/ ReadFails
  \/ LoopExit
  \/ CloseStream
  \/ SaveWav
  \/ SaveFails
  \/ Except
  \/ Finally
  \/ Exit

Spec == Init /\ [][Next]_vars

\* the session is one sequential thread: a step that can be taken is taken
FairSpec == Spec /\ WF_vars(Next)

TypeOK ==
  /\ pc \in {"open", "loop", "close", "save", "except", "finally", "exit", "done"}
  /\ stop_reason \in {"none", "no_speech", "silence", "max_duration"}
  /\ success \in {"none", "True", "False"}
  /\ error \in {"none", "open", "read", "write"}
  /\ data \in levels \cup {0}
  /\ total_chunks \in Nat
  /\ Len(frames) <= total_chunks

\* ------------------------------------------------------------------------
\* Tray indicator (src/PushToTalkDictation.Service/transcription-indicator.py)
\*
\* A WebSocket message is the sequence of its \x1e-separated fragments.  A
\* fragment is blank, malformed JSON ("bad"), JSON that is not an object
\* ("scalar") or an object ("dict") with its type, target and arguments; an
\* argument is an object, a list holding an object, or something else.
\* GLib.idle_add queues a callback for the main loop, which runs the queue
\* in order.
\* ------------------------------------------------------------------------
EVENT_RECORDING_STARTED == 0

EVENT_RECORDING_STOPPED == 1

EVENT_TRANSCRIPTION_STARTED == 2

EVENT_TRANSCRIPTION_COMPLETED == 3

EVENT_TRANSCRIPTION_FAILED == 4

\* len(self.frames)
IconFrames == 5

\* callbacks that may be pending in the main loop
MaxIdle == 2

\* fragments in one message
MaxFragments == 2

\* source ids GLib.timeout_add can hand out
MaxTimerId == 2

NoFields == [type |-> -1, target |-> "None", args |-> <<>>]

Blank == [kind |-> "blank"] @@ NoFields

BadJson == [kind |-> "bad"] @@ NoFields

ScalarJson == [kind |-> "scalar"] @@ NoFields

Dict(t, tg, a) == [kind |-> "dict", type |-> t, target |-> tg, args |-> a]

\* an event argument: eventType -1 stands for a missing key
Event(shape, et) == [shape |-> shape, eventType |-> et]

Fragments ==
  {Blank, BadJson, ScalarJson}
  \cup {Dict(6, "None", <<>>)}
  \cup {Dict(1, "PttEvent", <<>>)}
  \cup {Dict(1, "PttEvent", <<Event("dict", et)>>) : et \in {0, 1, 2, 3, 4, 9}}
  \cup {Dict(1, "PttEvent", <<Event("list", 1)>>)}
  \cup {Dict(1, "PttEvent", <<Event("scalar", -1)>>)}
  \cup {Dict(1, "Other", <<Event("dict", 1)>>)}
  \cup {Dict(2, "PttEvent", <<Event("dict", 1)>>)}

Messages ==
  UNION {[1..n -> Fragments] : n \in 1..MaxFragments}

\* on_ptt_event: the callback handed to GLib.idle_add, if any
on_ptt_event_no_failed(event) ==
  IF event.eventType = EVENT_RECORDING_STOPPED THEN <<"show">>
  ELSE IF event.eventType = EVENT_TRANSCRIPTION_COMPLETED THEN <<"hide">>
  ELSE <<>>
on_ptt_event(event) ==
  IF event.eventType = EVENT_RECORDING_STOPPED THEN <<"show">>
  ELSE IF event.eventType \in {EVENT_TRANSCRIPTION_COMPLETED,
                               EVENT_TRANSCRIPTION_FAILED} THEN <<"hide">>
  ELSE <<>>

\* handle_signalr_message: the callbacks one parsed object queues
handle_signalr_message_any_target(d) ==
  IF d.type = 1 /\ d.args # <<>> THEN on_ptt_event(d.args[1]) ELSE <<>>
handle_signalr_message(d) ==
  IF d.type = 1 /\ d.target = "PttEvent" /\ d.args # <<>>
    THEN on_ptt_event(d.args[1])
    ELSE <<>>

\* the fragment makes the handler raise AttributeError: .get on a value
\* that is not an object
Raises(f) ==
  \/ f.kind = "scalar"
  \/ /\ f.kind = "dict"
     /\ f.type = 1
     /\ f.target = "PttEvent"
     /\ f.args # <<>>
     /\ f.args[1].shape = "scalar"

\* the callbacks on_ws_message queues for a message: blank and malformed
\* fragments are skipped, an exception ends the handling of the message
RECURSIVE Scheduled(_)
Scheduled(msg) ==
  IF msg = <<>> THEN <<>>
  ELSE LET f == Head(msg) IN
       IF f.kind \in {"blank", "bad"} THEN Scheduled(Tail(msg))
       ELSE IF Raises(f) THEN <<>>
       ELSE handle_signalr_message(f) \o Scheduled(Tail(msg))

\* the fragment is a PttEvent invocation carrying event type 1, 3 or 4
IsIndicatorEvent(f) ==
  /\ f.kind = "dict"
  /\ f.type = 1
  /\ f.target = "PttEvent"
  /\ f.args # <<>>
  /\ f.args[1].shape \in {"dict", "list"}
  /\ f.args[1].eventType \in {1, 3, 4}

\* the event type of the last such fragment of the message, else prev
RECURSIVE LastIndicatorEvent(_, _)
LastIndicatorEvent(msg, prev) ==
  IF msg = <<>> THEN prev
  ELSE LastIndicatorEvent(Tail(msg),
         IF IsIndicatorEvent(Head(msg)) THEN Head(msg).args[1].eventType
         ELSE prev)

\* on_ws_message, called by the WebSocket thread
on_ws_message ==
  \E message \in Messages :
    /\ Len(idle_queue) + Len(Scheduled(message)) <= MaxIdle
    /\ idle_queue' = idle_queue \o Scheduled(message)
    /\ last_relevant' = (\E i \in 1..Len(message) : IsIndicatorEvent(message[i]))
    /\ last_event' = LastIndicatorEvent(message, last_event)
    /\ garbled' = (garbled \/ \E i \in 1..Len(message) : Raises(message[i]))
    /\ UNCHANGED <<recVars, whVars, conVars, status, animation_timer, current_frame, timers>>

\* show_indicator without the test for a running animation
show_indicator_always_adds ==
  /\ idle_queue # <<>>
  /\ Head(idle_queue) = "show"
  /\ idle_queue' = Tail(idle_queue)
  /\ status' = "ACTIVE"
  /\ \E id \in (1..MaxTimerId) \ timers :
       /\ animation_timer' = id
       /\ timers' = timers \cup {id}
  /\ current_frame' = 0
  /\ UNCHANGED <<recVars, whVars, conVars, last_relevant, last_event, garbled>>

\* show_indicator, run by the main loop
show_indicator ==
  /\ idle_queue # <<>>
  /\ Head(idle_queue) = "show"
  /\ idle_queue' = Tail(idle_queue)
  /\ status' = "ACTIVE"
  /\ IF animation_timer = 0
       THEN /\ current_frame' = 0
            /\ \E id \in (1..MaxTimerId) \ timers :
                 /\ animation_timer' = id
                 /\ timers' = timers \cup {id}
       ELSE UNCHANGED <<current_frame, animation_timer, timers>>
  /\ UNCHANGED <<recVars, whVars, conVars, last_relevant, last_event, garbled>>

\* hide_indicator, run by the main loop
hide_indicator ==
  /\ idle_queue # <<>>
  /\ Head(idle_queue) = "hide"
  /\ idle_queue' = Tail(idle_queue)
  /\ status' = "PASSIVE"
  /\ IF animation_timer # 0
       THEN /\ timers' = timers \ {animation_timer}
            /\ animation_timer' = 0
       ELSE UNCHANGED <<animation_timer, timers>>
  /\ UNCHANGED <<recVars, whVars, conVars, current_frame, last_relevant, last_event, garbled>>

\* animate, run by the main loop when a registered timer fires
animate ==
  /\ timers # {}
  /\ current_frame' = (current_frame + 1) % IconFrames
  /\ UNCHANGED <<recVars, whVars, conVars, status, animation_timer, timers, idle_queue,
                 last_relevant, last_event, garbled>>

DefaultConfig == [dur |-> 30000, thr |-> 800, sil |-> 3000, lv |-> {-2000}]

IndicatorInit ==
  /\ RecInit(DefaultConfig)
  /\ IndInit
  /\ WhInit
  /\ ConInit

IndicatorNext ==
  \/ on_ws_message
  \/ show_indicator
  \/ hide_indicator
  \/ animate

IndicatorSpec == IndicatorInit /\ [][IndicatorNext]_vars

IndicatorTypeOK ==
  /\ status \in {"PASSIVE", "ACTIVE"}
  /\ animation_timer \in 0..MaxTimerId
  /\ current_frame \in 0..(IconFrames - 1)
  /\ timers \subseteq 1..MaxTimerId
  /\ Len(idle_queue) <= MaxIdle
  /\ last_event \in {-1, 1, 3, 4}
  /\ last_relevant \in BOOLEAN

\* ------------------------------------------------------------------------
\* Transcriber (scripts/transcribe-audio.py)
\*
\* whisper_model is 0 for None, else the instance, named by the ordinal of
\* the construction that built it; attempts lists every WhisperModel(...)
\* construction: the call it was made in, the device, and whether it
\* returned.
\* ------------------------------------------------------------------------
\* calls of transcribe_audio explored
MaxCalls == 6

\* if whisper_model is None
NeedsLoad_always(wm) == TRUE
NeedsLoad(wm) == wm = 0

Attempt(dev, ok) == [call |-> calls, device |-> dev, ok |-> ok]

\* transcribe_audio is entered and calls load_whisper_model
transcribe_audio ==
  /\ wpc = "idle"
  /\ calls < MaxCalls
  /\ calls' = calls + 1
  /\ result' = "none"
  /\ IF NeedsLoad(whisper_model)
       THEN wpc' = "cuda" /\ model' = 0
       ELSE wpc' = "transcribe" /\ model' = whisper_model
  /\ UNCHANGED <<recVars, indVars, conVars, whisper_model, attempts>>

\* WhisperModel(device="cuda") returns
CudaLoaded ==
  /\ wpc = "cuda"
  /\ attempts' = Append(attempts, Attempt("cuda", TRUE))
  /\ whisper_model' = Len(attempts')
  /\ model' = whisper_model'
  /\ wpc' = "transcribe"
  /\ UNCHANGED <<recVars, indVars, conVars, result, calls>>

\* WhisperModel(device="cuda") raises: the except clause takes over
CudaFails ==
  /\ wpc = "cuda"
  /\ attempts' = Append(attempts, Attempt("cuda", FALSE))
  /\ wpc' = "cpu"
  /\ UNCHANGED <<recVars, indVars, conVars, whisper_model, model, result, calls>>

\* WhisperModel(device="cpu") returns
CpuLoaded ==
  /\ wpc = "cpu"
  /\ attempts' = Append(attempts, Attempt("cpu", TRUE))
  /\ whisper_model' = Len(attempts')
  /\ model' = whisper_model'
  /\ wpc' = "transcribe"
  /\ UNCHANGED <<recVars, indVars, conVars, result, calls>>

\* WhisperModel(device="cpu") raises too: load_whisper_model raises and
\* transcribe_audio returns {"error": ...}
CpuFails ==
  /\ wpc = "cpu"
  /\ attempts' = Append(attempts, Attempt("cpu", FALSE))
  /\ result' = "error"
  /\ wpc' = "idle"
  /\ UNCHANGED <<recVars, indVars, conVars, whisper_model, model, calls>>

\* model.transcribe returns: {"text": ...}
Transcribed ==
  /\ wpc = "transcribe"
  /\ result' = "text"
  /\ wpc' = "idle"
  /\ UNCHANGED <<recVars, indVars, conVars, whisper_model, model, attempts, calls>>

\* model.transcribe or the reading of the segments raises: {"error": ...}
TranscribeFails ==
  /\ wpc = "transcribe"
  /\ result' = "error"
  /\ wpc' = "idle"
  /\ UNCHANGED <<recVars, indVars, conVars, whisper_model, model, attempts, calls>>

WhisperInit ==
  /\ RecInit(DefaultConfig)
  /\ IndInit
  /\ WhInit
  /\ ConInit

WhisperNext ==
  \/ transcribe_audio
  \/ CudaLoaded
  \/ CudaFails
  \/ CpuLoaded
  \/ CpuFails
  \/ Transcribed
  \/ TranscribeFails

WhisperSpec == WhisperInit /\ [][WhisperNext]_vars

\* ------------------------------------------------------------------------
\* Connection thread and quit (transcription-indicator.py, lines 98-132
\* and 227-238)
\*
\* ws_thread runs beside the main thread, which runs quit; the steps are
\* split where one thread reads or writes self.running or self.ws.  A
\* WebSocketApp is named by the ordinal of the connection attempt that
\* created it, self.ws is 0 for None, and open_sockets holds the apps
\* whose socket is connected.
\* ------------------------------------------------------------------------
\* connection attempts explored
MaxConnections == 3

OtherVars == <<recVars, indVars, whVars>>

\* while self.running: the loop is entered and negotiation starts, or
\* the thread ends
ThreadLoop ==
  /\ tpc = "loop"
  /\ IF running
       THEN /\ connections < MaxConnections
            /\ connections' = connections + 1
            /\ tpc' = "negotiate"
       ELSE /\ tpc' = "exit"
            /\ UNCHANGED connections
  /\ UNCHANGED <<OtherVars, running, ws, qpc, open_sockets>>

\* requests.post(...) and resp.json()["connectionId"] return
NegotiateOk ==
  /\ tpc = "negotiate"
  /\ tpc' = "connect"
  /\ UNCHANGED <<OtherVars, running, ws, qpc, open_sockets, connections>>

\* the negotiation raises: except Exception
NegotiateFails ==
  /\ tpc = "negotiate"
  /\ tpc' = "ended"
  /\ UNCHANGED <<OtherVars, running, ws, qpc, open_sockets, connections>>

\* self.ws = WebSocketApp(...); run_forever() connects
Connect ==
  /\ tpc = "connect"
  /\ ws' = connections
  /\ open_sockets' = open_sockets \cup {connections}
  /\ tpc' = "run"
  /\ UNCHANGED <<OtherVars, running, qpc, connections>>

\* self.ws = WebSocketApp(...); run_forever() cannot connect and returns
ConnectFails ==
  /\ tpc = "connect"
  /\ ws' = connections
  /\ tpc' = "ended"
  /\ UNCHANGED <<OtherVars, running, qpc, open_sockets, connections>>

\* the peer closes the socket or it fails: run_forever() returns
SocketLost ==
  /\ tpc = "run"
  /\ connections \in open_sockets
  /\ open_sockets' = open_sockets \ {connections}
  /\ tpc' = "ended"
  /\ UNCHANGED <<OtherVars, running, ws, qpc, connections>>

\* run_forever() returns after quit closed the socket
RunReturns ==
  /\ tpc = "run"
  /\ connections \notin open_sockets
  /\ tpc' = "ended"
  /\ UNCHANGED <<OtherVars, running, ws, qpc, open_sockets, connections>>

\* if self.running: "Reconnecting in 5 seconds..."
ThreadAfter ==
  /\ tpc = "ended"
  /\ tpc' = IF running THEN "sleep" ELSE "loop"
  /\ UNCHANGED <<OtherVars, running, ws, qpc, open_sockets, connections>>

\* time.sleep(5) returns
SleepDone ==
  /\ tpc = "sleep"
  /\ tpc' = "loop"
  /\ UNCHANGED <<OtherVars, running, ws, qpc, open_sockets, connections>>

\* quit: self.running = False
QuitStop ==
  /\ qpc = "idle"
  /\ running' = FALSE
  /\ qpc' = "close"
  /\ UNCHANGED <<OtherVars, ws, tpc, open_sockets, connections>>

\* quit: if self.ws: self.ws.close(); Gtk.main_quit()
QuitClose ==
  /\ qpc = "close"
  /\ open_sockets' = IF ws # 0 THEN open_sockets \ {ws} ELSE open_sockets
  /\ qpc' = "done"
  /\ UNCHANGED <<OtherVars, running, ws, tpc, connections>>

ConnectionInit ==
  /\ RecInit(DefaultConfig)
  /\ IndInit
  /\ WhInit
  /\ ConInit

ThreadNext ==
  \/ ThreadLoop
  \/ NegotiateOk
  \/ NegotiateFails
  \/ Connect
  \/ ConnectFails
  \/ RunReturns
  \/ ThreadAfter
  \/ SleepDone

ConnectionNext ==
  \/ ThreadLoop
  \/ NegotiateOk
  \/ NegotiateFails
  \/ Connect
  \/ ConnectFails
  \/ SocketLost
  \/ RunReturns
  \/ ThreadAfter
  \/ SleepDone
  \/ QuitStop
  \/ QuitClose

ConnectionSpec == ConnectionInit /\ [][ConnectionNext]_vars

\* the thread is scheduled: a step of its own that it can take is taken
ConnectionFairSpec == ConnectionSpec /\ WF_vars(ThreadNext)

ConnectionTypeOK ==
  /\ running \in BOOLEAN
  /\ ws \in 0..MaxConnections
  /\ tpc \in {"loop", "negotiate", "connect", "run", "ended", "sleep", "exit"}
  /\ qpc \in {"idle", "close", "done"}
  /\ open_sockets \subseteq 1..MaxConnections
  /\ connections \in 0..MaxConnections

\* ------------------------------------------------------------------------
\* Properties
\* ------------------------------------------------------------------------
Range(s) == {s[i] : i \in 1..Len(s)}

\* every level the stream can carry is above any calibrated threshold
ContinuousVoiced == \A l \in levels : Amplitude(l) > UpperClamp

\* C1 (as stated): a session that stops with the no-speech timeout holds
\* exactly ceil(5.0 * 16000 / 1024) = 79 accepted chunks.
C1_StopsAt79 == stop_reason = "no_speech" => Len(frames) = 79

\* C1 (amended): an all-silent session stops with the no-speech timeout
\* exactly when the post-calibration silent chunks reach
\* int(5.0 * 16000 / 1024) = 78, so the accepted buffer holds 78 chunks.
C1_StopsAt78 ==
  /\ stop_reason = "no_speech" =>
       ~has_spoken /\ waiting_for_speech_chunks = 78 /\ Len(frames) = 78
  /\ (~has_spoken /\ Len(frames) >= 78) => stop_reason = "no_speech"

C1_Witness ==
  pc = "done" /\ stop_reason = "no_speech" /\ success = "True"

\* one voiced chunk first, silent chunks ever since, default silence settings
C2_Scenario ==
  /\ max_silence_seconds = 3000
  /\ configured_threshold = 800
  /\ has_spoken
  /\ Len(frames) = silence_chunks + 1

\* C2 (as stated): one voiced chunk followed by silent chunks completes the
\* session when the silent count reaches ceil(3.0 * 16000 / 1024) = 47, with
\* 48 chunks accepted.
C2_CompletesAt47 ==
  (C2_Scenario /\ stop_reason = "silence") =>
     silence_chunks = 47 /\ Len(frames) = 48

\* C2 (amended): one voiced chunk followed by silent chunks completes the
\* session exactly when the silent count reaches int(3.0 * 16000 / 1024) = 46,
\* with 47 chunks (48128 samples) accepted.
C2_CompletesAt46 ==
  /\ (C2_Scenario /\ stop_reason = "silence") =>
        silence_chunks = 46 /\ Len(frames) = 47 /\ Len(frames) * CHUNK = 48128
  /\ (C2_Scenario /\ silence_chunks >= 46) => stop_reason = "silence"
  /\ (C2_Scenario /\ stop_reason = "none" /\ pc = "loop") => silence_chunks < 46

C2_Witness ==
  C2_Scenario /\ stop_reason = "silence" /\ pc = "done" /\ success = "True"

\* C3: a non-positive max duration or max silence duration is rejected before
\* any device I/O: the stream is never opened, no chunk is read, no output is
\* written and the session does not report success.
C3_InvalidConfigRejected ==
  (max_duration_seconds <= 0 \/ max_silence_seconds <= 0) =>
     /\ ~stream_opened
     /\ total_chunks = 0
     /\ ~wav_written
     /\ success # "True"
     /\ exit_code # 0

\* C4: success (True / exit code 0) is reported only if calibration completed
\* and listening was entered.
C4_SuccessOnlyAfterCalibration ==
  (success = "True" \/ exit_code = 0) => ~is_calibrating

\* C5: no exit of the session leaves the stream open or the audio subsystem
\* instance alive.
C5_DeviceReleased ==
  pc \in {"exit", "done"} => (~stream_open /\ ~pa_alive)

C5_Witness ==
  pc = "done" /\ success = "False" /\ stream_opened /\ total_chunks > 0

\* the threshold equals min(max(2.0 * average, base), 1200)
ThresholdIsCalibrated ==
  LET n == Len(calibration_samples)
      twiceSum == 2 * SumSeq(calibration_samples)
      bound == IF twiceSum >= configured_threshold * n
               THEN twiceSum ELSE configured_threshold * n
  IN /\ n > 0
     /\ silence_threshold.num * n =
          silence_threshold.den * (IF bound <= 1200 * n THEN bound ELSE 1200 * n)

\* C6: once calibration has completed the threshold is
\* min(max(2.0 * average of the measured amplitudes, base), 1200), and no
\* later step changes it.
C6_ThresholdFixed ==
  [][ /\ ~is_calibrating' => ThresholdIsCalibrated'
      /\ ~is_calibrating => silence_threshold' = silence_threshold ]_vars

C6_Witness ==
  /\ ~is_calibrating
  /\ Len(frames) >= 2
  /\ 2 * SumSeq(calibration_samples) > 1200 * Len(calibration_samples)
  /\ configured_threshold < 1200

\* C7: calibration consumes exactly max(calibration_chunks, 3) chunks, the
\* first 3 skipped and the rest measured, whatever they contain.
C7_CalibrationConsumes ==
  LET n == IF calibration_chunks >= 3 THEN calibration_chunks ELSE 3 IN
  /\ ~is_calibrating =>
        /\ calibration_reads = 1..n
        /\ Len(calibration_samples) = n - 3
  /\ is_calibrating => (total_chunks < n /\ calibration_reads = 1..total_chunks)

C7_Witness ==
  ~is_calibrating /\ total_chunks = 8 /\ pc = "loop" /\ frames = <<>>

\* C8: no chunk read during calibration is in the accepted buffer.
C8_NoCalibrationChunkAccepted ==
  /\ Range(frames) \cap calibration_reads = {}
  /\ is_calibrating => frames = <<>>

C8_Witness ==
  pc = "done" /\ Len(frames) > 0 /\ Cardinality(calibration_reads) = 8

\* C9 (as stated): a continuous voiced stream is stopped by the max-duration
\* cap when the chunks processed reach
\* ceil(max_duration_seconds * 16000 / 1024).
C9_CapAtCeil ==
  (ContinuousVoiced /\ stop_reason = "max_duration") =>
     total_chunks * 1000 * CHUNK >= max_duration_seconds * RATE

\* C9 (amended): a continuous voiced stream (max silence of at least one
\* chunk) is stopped by the max-duration cap exactly when the chunks processed
\* reach int(max_duration_seconds * 16000 / 1024).
C9_CapAtInt ==
  (ContinuousVoiced /\ max_duration_seconds >= 0
     /\ max_silence_seconds * RATE >= 1000 * CHUNK) =>
     LET cap == (max_duration_seconds * RATE) \div (1000 * CHUNK) IN
     /\ total_chunks <= cap
     /\ stop_reason \in {"none", "max_duration"}
     /\ stop_reason = "max_duration" <=> (total_chunks = cap /\ pc # "loop")

C9_Witness ==
  /\ ContinuousVoiced
  /\ stop_reason = "max_duration"
  /\ has_spoken
  /\ silence_chunks = 0
  /\ pc = "done"

\* C10: the no-speech timeout and the speech-then-silence stop are decided
\* before the max-duration cap: the cap is the reported stop only when
\* neither of them holds, also when it is reached on the same chunk.
C10_NoSpeechBeforeCap ==
  stop_reason = "max_duration" =>
     /\ ~(~has_spoken /\ waiting_for_speech_chunks * CHUNK * 1000 + CHUNK * 1000
                            > WaitMs * RATE)
     /\ ~(has_spoken /\ silence_chunks * CHUNK * 1000 + CHUNK * 1000
                            > max_silence_seconds * RATE)

C10_Witness ==
  /\ stop_reason = "no_speech"
  /\ total_chunks = max_total_chunks
  /\ pc = "done"

\* every level the stream can carry is at or below any calibrated threshold
AllSilent ==
  \A l \in levels :
     Amplitude(l) <= (IF configured_threshold <= 1200
                      THEN configured_threshold ELSE 1200)

\* C11: the session ends by the speech-then-silence stop only if a voiced
\* chunk was observed; without one it never does, however long the silence.
C11_CompletedOnlyAfterSpeech ==
  /\ stop_reason = "silence" => has_spoken
  /\ AllSilent => stop_reason # "silence"

C11_Witness ==
  /\ ~has_spoken
  /\ max_silence_seconds > 0
  /\ silence_chunks * 1000 * CHUNK > max_silence_seconds * RATE
  /\ stop_reason \in {"no_speech", "max_duration"}
  /\ pc = "done"

\* C12: a read failure while listening ends the session as failed: False is
\* returned and the exit code is 1, whatever was accepted or heard before.
C12_ReadFailureFails ==
  (error = "read" /\ ~is_calibrating) =>
     /\ success # "True"
     /\ exit_code # 0
     /\ stop_reason = "none"
     /\ pc \in {"finally", "exit", "done"} => success = "False"
     /\ pc = "done" => exit_code = 1

C12_Witness ==
  /\ error = "read"
  /\ ~is_calibrating
  /\ has_spoken
  /\ Len(frames) > 1
  /\ pc = "done"
  /\ exit_code = 1

\* C13: on success the buffer is, in read order, exactly the chunks read
\* after calibration, the one that ended the session included: N chunks, so
\* N * CHUNK samples and a duration of N * CHUNK / RATE >= 0.
C13_BufferIsListeningReads ==
  success = "True" =>
     LET c == Cardinality(calibration_reads)
         n == total_chunks - c
     IN /\ n >= 0
        /\ wav_written
        /\ frames = [i \in 1..n |-> c + i]
        /\ Len(frames) * CHUNK = n * CHUNK
        /\ (Len(frames) * CHUNK * 1000) \div RATE >= 0

C13_Witness ==
  /\ success = "True"
  /\ Len(frames) >= 2
  /\ frames[Len(frames)] = total_chunks
  /\ stop_reason = "silence"
  /\ exit_code = 0

\* C15: a voiced chunk sets has_spoken and resets both counters; a silent
\* chunk adds one to silence_chunks, and to waiting_for_speech_chunks only
\* while has_spoken is false.  has_spoken never turns false again, and
\* waiting_for_speech_chunks is 0 once it is true.
C15_CounterUpdates ==
  [][ /\ (~is_calibrating /\ total_chunks' # total_chunks) =>
           IF Abs(data') * silence_threshold.den > silence_threshold.num
             THEN /\ has_spoken'
                  /\ silence_chunks' = 0
                  /\ waiting_for_speech_chunks' = 0
             ELSE /\ has_spoken' = has_spoken
                  /\ silence_chunks' = silence_chunks + 1
                  /\ waiting_for_speech_chunks' =
                       IF has_spoken THEN waiting_for_speech_chunks
                       ELSE waiting_for_speech_chunks + 1
      /\ has_spoken => has_spoken'
      /\ has_spoken' => waiting_for_speech_chunks' = 0
      /\ ~has_spoken' =>
           /\ silence_chunks' = Len(frames')
           /\ waiting_for_speech_chunks' = Len(frames')
      /\ silence_chunks' <= Len(frames') ]_vars

C15_Witness ==
  /\ has_spoken
  /\ silence_chunks >= 2
  /\ waiting_for_speech_chunks = 0
  /\ Len(frames) > silence_chunks + 1
  /\ pc = "loop"

\* C16: the last chunk read while listening was labelled voiced exactly if
\* its amplitude is strictly above the threshold, in every state, whatever
\* has_spoken and the counters were.
C16_StrictMemoryless ==
  (~is_calibrating /\ frames # <<>>) =>
     ((silence_chunks = 0) <=>
        (Abs(data) * silence_threshold.den > silence_threshold.num))

C16_Witness ==
  /\ ~is_calibrating
  /\ frames # <<>>
  /\ Abs(data) * silence_threshold.den = silence_threshold.num
  /\ silence_chunks > 0
  /\ has_spoken

\* the chunk counts stay within the cap
ChunksBounded ==
  LET cap == (max_duration_seconds * RATE) \div (1000 * CHUNK) IN
  /\ total_chunks <= (IF max_duration_seconds >= 0 THEN cap ELSE 0)
  /\ Len(frames) <= total_chunks - Cardinality(calibration_reads)

C14_IconFollowsLastEvent ==
  (idle_queue = <<>> /\ ~garbled) =>
     (status = "ACTIVE" <=> last_event = 1)

C14_Witness ==
  /\ idle_queue = <<>>
  /\ ~garbled
  /\ status = "PASSIVE"
  /\ last_event = 4
  /\ current_frame > 0

\* C19: an animation timer is registered exactly while the status is ACTIVE,
\* and never more than one.
C19_OneTimerIffActive ==
  /\ (timers # {}) <=> (status = "ACTIVE")
  /\ Cardinality(timers) <= 1
  /\ (animation_timer # 0) <=> (timers # {})
  /\ timers \subseteq {animation_timer}

C19_Witness ==
  /\ status = "ACTIVE"
  /\ timers = {animation_timer}
  /\ current_frame = 2
  /\ idle_queue # <<>>
  /\ Head(idle_queue) = "show"

\* C20: only a message holding a type 1 invocation of PttEvent with a
\* non-empty argument list and event type 1, 3 or 4 queues a callback, and
\* the status and the timer change only when a queued callback runs; any
\* other message leaves them unchanged.
C20_OnlyIndicatorEvents ==
  [][ /\ Len(idle_queue') > Len(idle_queue) => last_relevant'
      /\ (idle_queue' # idle_queue /\ ~last_relevant') =>
            (idle_queue # <<>> /\ idle_queue' = Tail(idle_queue))
      /\ (<<status, animation_timer, timers>>' # <<status, animation_timer, timers>>) =>
            (idle_queue # <<>> /\ idle_queue' = Tail(idle_queue)) ]_vars

C20_Witness ==
  /\ ~last_relevant
  /\ garbled
  /\ status = "ACTIVE"
  /\ timers # {}
  /\ idle_queue = <<>>
  /\ last_event = 1

\* C17: the GPU backend is constructed first and the CPU backend only right
\* after a failed GPU construction in the same call; after a successful
\* construction nothing is constructed again and every call uses that
\* instance; if both fail the cache stays empty and the call returns an
\* error result.
C17_LoadOnceGpuFirst ==
  [][ /\ \A i \in 1..Len(attempts') :
           /\ attempts'[i].ok => i = Len(attempts')
           /\ attempts'[i].device = "cuda" =>
                (i = 1 \/ attempts'[i-1].call < attempts'[i].call)
           /\ attempts'[i].device = "cpu" =>
                /\ i > 1
                /\ attempts'[i-1].device = "cuda"
                /\ ~attempts'[i-1].ok
                /\ attempts'[i-1].call = attempts'[i].call
      /\ whisper_model # 0 =>
           (whisper_model' = whisper_model /\ attempts' = attempts)
      /\ whisper_model' # 0 =>
           (whisper_model' = Len(attempts') /\ attempts'[whisper_model'].ok)
      /\ wpc' = "transcribe" => (model' = whisper_model' /\ model' # 0)
      /\ (wpc = "cpu" /\ attempts' # attempts /\ ~attempts'[Len(attempts')].ok) =>
           (whisper_model' = 0 /\ result' = "error" /\ wpc' = "idle")
    ]_vars

C17_Witness ==
  /\ calls >= 3
  /\ Len(attempts) = 3
  /\ ~attempts[1].ok /\ ~attempts[2].ok
  /\ attempts[3].ok
  /\ attempts[3].call = 2
  /\ whisper_model = 3
  /\ wpc = "transcribe"
  /\ model = 3

\* C21: once quit has set running to false and closed the current socket,
\* no WebSocket is left open, a quit that raced with a reconnect included.
C21_NoSocketAfterQuit ==
  qpc = "done" => open_sockets = {}

\* the other half of C21: while quit has not been requested, the end of a
\* connection attempt leads to a new negotiation (up to the attempts
\* explored)
C21_ReconnectsUntilQuit ==
  (tpc = "ended" /\ running) ~>
     (tpc = "negotiate" \/ ~running \/ connections = MaxConnections)

\* after quit the thread begins no negotiation
C21_NoNegotiationAfterQuit ==
  [][ ~running => connections' = connections ]_vars
====
